---- MODULE Spec2Model ----
(***************************************************************************)
(* MP3 splitter: the split-point collection, the segment list shown in the *)
(* timestamp tree, the auto-split worker threads and the export of the     *)
(* segments of MP3SplitterApp (src/main.py).                               *)
(*                                                                         *)
(* Spec follows the handlers that work on the split points and on the      *)
(* segment list.  ExportSpec follows the same handlers up to an export     *)
(* (Download as ZIP), which writes files and changes none of the program's *)
(* collections.  EntrySpec lets the user type further texts into the entry.*)
(* CodecSpec applies the time conversions to texts and times drawn from    *)
(* bounded sets.  PlaybackSpec adds the playback buttons to Spec.           *)
(*                                                                         *)
(* Times are integers in milliseconds.  A text (the content of the silence *)
(* entry, a cell of the timestamp tree) is modelled by the sequence of its *)
(* parts between ':' characters; a part is either the decimal text of an   *)
(* integer or something int() rejects.                                     *)
(***************************************************************************)
EXTENDS Integers, Sequences, FiniteSets, Bags, TLC

----------------------------------------------------------------------------
(* Bounds of the model *)

\* most split points stored at once
MaxPoints == 2
\* most auto-split runs pending at once (worker threads plus queued callbacks)
MaxPending == 2
\* most auto-split runs pending at once in a run that ends with exports
MaxExportPending == 1
\* the longest time, in whole seconds, the conversions are applied to
MaxSecs == 61

----------------------------------------------------------------------------
(* Texts *)

Num(n) == [int |-> TRUE, val |-> n]
NaN == [int |-> FALSE, val |-> 0]

\* the text the entry is created with: "00:00"
DefaultEntry == <<Num(0), Num(0)>>

\* texts the user types into the silence entry: "00:00", "2", "x"
EntryTexts == { DefaultEntry, <<Num(2)>>, <<NaN>> }

\* ms_to_mmss without the "% 60"
ms_to_mmss_NoMod(ms) ==
    LET seconds == ms \div 1000
    IN  <<Num(seconds \div 60), Num(seconds)>>

\* ms_to_mmss: f"{mins:02d}:{secs:02d}"
ms_to_mmss(ms) ==
    LET seconds == ms \div 1000
    IN  <<Num(seconds \div 60), Num(seconds % 60)>>

\* the parser written inline in auto_split_on_param_change and in
\* add_manual_split_from_entry; ok = FALSE stands for ValueError
ParseTimeEntry(parts) ==
    IF Len(parts) >= 2
    THEN IF Len(parts) = 2 /\ parts[1].int /\ parts[2].int
         THEN [ok |-> TRUE, ms |-> (parts[1].val * 60 + parts[2].val) * 1000]
         ELSE [ok |-> FALSE, ms |-> 0]
    ELSE IF parts[1].int
         THEN [ok |-> TRUE, ms |-> parts[1].val * 1000]
         ELSE [ok |-> FALSE, ms |-> 0]

\* int() of both parts; ok = FALSE stands for ValueError
TimeOf(mins, secs) ==
    IF mins.int /\ secs.int
    THEN [ok |-> TRUE, ms |-> (mins.val * 60 + secs.val) * 1000]
    ELSE [ok |-> FALSE, ms |-> 0]

\* mmss_to_ms: one part is taken as seconds, three parts or more as '0', '0'
mmss_to_ms(parts) ==
    IF Len(parts) = 2 THEN TimeOf(parts[1], parts[2])
    ELSE IF Len(parts) = 1 THEN TimeOf(Num(0), parts[1])
    ELSE TimeOf(Num(0), Num(0))

----------------------------------------------------------------------------
(* Audio files on disk *)

NoFile == "none"

Loud(n) == [silent |-> FALSE, len |-> n]
Quiet(n) == [silent |-> TRUE, len |-> n]

\* "a.mp3": 10 s, silent during [4000, 6000]; "s.mp3": 1.5 s of silence;
\* "bad.mp3": not decodable
Files == {"a.mp3", "s.mp3", "bad.mp3"}

Decodes(f) == f # "bad.mp3"

\* the decoded signal as maximal runs of loud / silent milliseconds
Runs(f) ==
    CASE f = "a.mp3" -> <<Loud(4000), Quiet(2000), Loud(4000)>>
      [] f = "s.mp3" -> <<Quiet(1500)>>
      [] OTHER -> <<>>

RECURSIVE SumLen(_)
SumLen(runs) ==
    IF runs = <<>> THEN 0 ELSE Head(runs).len + SumLen(Tail(runs))

\* len(AudioSegment.from_mp3(f))
AudioLen(f) == SumLen(Runs(f))

----------------------------------------------------------------------------
(* Silence segmentation engine: split_on_silence(audio, min_silence_len,   *)
(* silence_thresh=-40, keep_silence=200, seek_step=1).  A window of        *)
(* min_silence_len milliseconds counts as silent exactly when it lies      *)
(* inside one silent run.                                                  *)

KeepSilence == 200

Max(a, b) == IF a >= b THEN a ELSE b
Min(a, b) == IF a <= b THEN a ELSE b

\* the silent runs that last at least min_silence_len, as <<start, end>>
RECURSIVE SilentRunsFrom(_, _, _)
SilentRunsFrom(runs, pos, min_silence_len) ==
    IF runs = <<>> THEN <<>>
    ELSE LET r == Head(runs)
             rest == SilentRunsFrom(Tail(runs), pos + r.len, min_silence_len)
         IN  IF r.silent /\ r.len >= min_silence_len
             THEN <<<<pos, pos + r.len>>>> \o rest
             ELSE rest

detect_silence(runs, min_silence_len) ==
    IF SumLen(runs) < min_silence_len THEN <<>>
    ELSE SilentRunsFrom(runs, 0, min_silence_len)

\* the spans between the silent ranges; empty when all is silent
detect_nonsilent(runs, min_silence_len) ==
    LET silent == detect_silence(runs, min_silence_len)
        len_seg == SumLen(runs)
        n == Len(silent)
        between == [i \in 1..n |->
                      <<IF i = 1 THEN 0 ELSE silent[i-1][2], silent[i][1]>>]
        last == IF silent[n][2] # len_seg
                THEN <<<<silent[n][2], len_seg>>>> ELSE <<>>
        all == between \o last
    IN  IF n = 0 THEN <<<<0, len_seg>>>>
        ELSE IF silent[1] = <<0, len_seg>> THEN <<>>
        ELSE IF all[1] = <<0, 0>> THEN Tail(all) ELSE all

\* the chunks as <<start, end>> spans of the buffer: every non-silent span
\* padded by keep_silence, two paddings that overlap meet half way, and
\* nothing reaches beyond the buffer
split_on_silence(runs, min_silence_len, keep_silence) ==
    LET ns == detect_nonsilent(runs, min_silence_len)
        n == Len(ns)
        len_seg == SumLen(runs)
        lo(i) == ns[i][1] - keep_silence
        hi(i) == ns[i][2] + keep_silence
        start(i) == IF i > 1 /\ lo(i) < hi(i-1)
                    THEN (hi(i-1) + lo(i)) \div 2 ELSE lo(i)
        end(i) == IF i < n /\ lo(i+1) < hi(i)
                  THEN (hi(i) + lo(i+1)) \div 2 ELSE hi(i)
    IN  [i \in 1..n |-> <<Max(start(i), 0), Min(end(i), len_seg)>>]

\* how a call of the engine ends: with a list of chunks or by raising
Returned(chunks) == [raised |-> FALSE, chunks |-> chunks]
Raised == [raised |-> TRUE, chunks |-> <<>>]

\* how the engine can end for a decoded file.  With min_silence_len = 0
\* every window is empty and its level is 0, so that the whole buffer is
\* one silent range and no chunk is left.  A negative min_silence_len is
\* outside the engine's parameter domain: the call raises, finds nothing,
\* or returns the buffer as one chunk.
EngineOutcomes(f, min_silence_len) ==
    IF min_silence_len >= 1
    THEN { Returned(split_on_silence(Runs(f), min_silence_len, KeepSilence)) }
    ELSE IF min_silence_len = 0
    THEN { Returned(<<>>) }
    ELSE { Returned(<<>>), Returned(<<<<0, AudioLen(f)>>>>), Raised }

\* len(chunk)
ChunkLen(chunk) == chunk[2] - chunk[1]

----------------------------------------------------------------------------
(* Segment lists *)

\* run_auto_split_task: timestamps.append((i+1, start_ms, end_ms)) with
\* current_pos running over the chunk lengths
RECURSIVE TimestampsFrom(_, _, _)
TimestampsFrom(chunks, i, current_pos) ==
    IF chunks = <<>> THEN <<>>
    ELSE LET start_ms == current_pos
             end_ms == current_pos + ChunkLen(Head(chunks))
         IN  <<<<i + 1, start_ms, end_ms>>>>
               \o TimestampsFrom(Tail(chunks), i + 1, end_ms)

\* Timestamps with every chunk at its own place in the buffer
Timestamps_ChunkSpans(chunks) ==
    [i \in 1..Len(chunks) |-> <<i, chunks[i][1], chunks[i][2]>>]

Timestamps(chunks) == TimestampsFrom(chunks, 0, 0)

\* one row of the timestamp tree: values=(track, mm:ss, mm:ss)
Row(track, start, end) == <<track, ms_to_mmss(start), ms_to_mmss(end)>>

Rows(timestamps) ==
    [i \in 1..Len(timestamps) |->
        Row(timestamps[i][1], timestamps[i][2], timestamps[i][3])]

Range(seq) == { seq[i] : i \in 1..Len(seq) }

RemoveAt(seq, i) == SubSeq(seq, 1, i - 1) \o SubSeq(seq, i + 1, Len(seq))

\* sorted(S) for a finite set of integers
RECURSIVE Sorted(_)
Sorted(S) ==
    IF S = {} THEN <<>>
    ELSE LET m == CHOOSE x \in S : \A y \in S : x <= y
         IN  <<m>> \o Sorted(S \ {m})

\* sorted(list) for a list of integers, repeats kept
RECURSIVE SortedList(_)
SortedList(seq) ==
    IF seq = <<>> THEN <<>>
    ELSE LET i == CHOOSE k \in 1..Len(seq) :
                      \A j \in 1..Len(seq) : seq[k] <= seq[j]
         IN  <<seq[i]>> \o SortedList(RemoveAt(seq, i))

\* DerivePoints without the set(): repeated points stay
DerivePoints_NoSet(points, duration) ==
    LET all == SortedList(<<0>> \o points
                            \o (IF duration # 0 THEN <<duration>> ELSE <<>>))
    IN  SelectSeq(all, LAMBDA p : 0 <= p /\ p <= duration)

\* DerivePoints without the end of the audio among the boundaries
DerivePoints_NoEnd(points, duration) ==
    LET all == Sorted({0} \cup Range(points))
    IN  SelectSeq(all, LAMBDA p : 0 <= p /\ p <= duration)

\* update_manual_split_segments: the boundaries the segments are cut at
DerivePoints(points, duration) ==
    LET all == Sorted({0} \cup Range(points)
                          \cup (IF duration # 0 THEN {duration} ELSE {}))
    IN  SelectSeq(all, LAMBDA p : 0 <= p /\ p <= duration)

\* derive_segments numbering the segments from 0
derive_segments_FromZero(points, duration) ==
    LET ps == DerivePoints(points, duration)
    IN  [i \in 1..(Len(ps) - 1) |-> <<i - 1, ps[i], ps[i+1]>>]

\* update_manual_split_segments: (i+1, points[i], points[i+1]) for each
\* consecutive pair
derive_segments(points, duration) ==
    LET ps == DerivePoints(points, duration)
    IN  [i \in 1..(Len(ps) - 1) |-> <<i, ps[i], ps[i+1]>>]

\* reset_split_segments_panel: the one full segment when audio is loaded
ResetRows(duration) ==
    IF duration # 0 THEN <<Row(1, 0, duration)>> ELSE <<>>

----------------------------------------------------------------------------
(* State of MP3SplitterApp *)

VARIABLES
    source_file_path,     \* self.source_file_path (NoFile for the empty text)
    current_audio_path,   \* self.current_audio_path (NoFile for None)
    audio_duration_ms,    \* self.audio_duration_ms
    split_points,         \* self.split_points, a list
    timestamp_tree,       \* rows of self.timestamp_tree, top to bottom
    min_silence_entry,    \* text in self.min_silence_entry
    threads,              \* running run_auto_split_task threads, a bag
    after_queue,          \* update_tree callbacks queued by root.after(0, ..)
    status,               \* status_type of the message the status bar shows
    zip_export,           \* what the latest download_segments_zip did
    time_codec,           \* a time or a text and what the conversions made of it
    is_paused,            \* self.is_paused
    mixer                 \* pygame.mixer.music: its state and the file loaded

vars == <<source_file_path, current_audio_path, audio_duration_ms,
          split_points, timestamp_tree, min_silence_entry, threads,
          after_queue, status, zip_export, time_codec, is_paused, mixer>>

\* update_status(msg, kind): the state keeps the status_type, which sets
\* the colour and the flash, and not the wording
Status(kind, msg) == [kind |-> kind]

\* no export yet: no dialog, no message box, nothing encoded, no staging
\* directory, no archive at the destination, no exception
NoExport ==
    [asked |-> FALSE, shown |-> "none", encoded |-> <<>>, temp_dir |-> FALSE,
     archive |-> "none", raised |-> FALSE]

\* no conversion asked for
NoCodec ==
    [stage |-> "idle", ms |-> 0, text |-> <<>>,
     result |-> [ok |-> FALSE, ms |-> 0]]

\* MP3SplitterApp.__init__
AppInit ==
    /\ source_file_path = NoFile
    /\ current_audio_path = NoFile
    /\ audio_duration_ms = 0
    /\ split_points = <<>>
    /\ timestamp_tree = <<>>
    /\ min_silence_entry = DefaultEntry
    /\ threads = EmptyBag
    /\ after_queue = <<>>
    /\ status = Status("info", "Ready")
    /\ zip_export = NoExport
    /\ is_paused = FALSE
    /\ mixer = [state |-> "stopped", file |-> NoFile]

Init ==
    /\ AppInit
    /\ time_codec = NoCodec

\* pygame.mixer.music: stop() halts the music and keeps it loaded
music_stop(m) == [m EXCEPT !.state = "stopped"]

\* load(f) followed by play(): the file replaces the music and plays
music_load_play(m, f) == [state |-> "playing", file |-> f]

\* pause() holds playing music; it does nothing to stopped music
music_pause(m) ==
    IF m.state = "playing" THEN [m EXCEPT !.state = "paused"] ELSE m

\* unpause() resumes paused music, the file it was loaded from
music_unpause(m) ==
    IF m.state = "paused" THEN [m EXCEPT !.state = "playing"] ELSE m

\* get_busy(): true while playing, false while stopped; for paused music
\* it is true up to pygame 2.0.0 and false from 2.0.1 on
music_get_busy(m) ==
    CASE m.state = "playing" -> {TRUE}
      [] m.state = "stopped" -> {FALSE}
      [] OTHER -> {TRUE, FALSE}

\* the music after load(f) has raised: it goes on as it was, or it is
\* halted
music_load_failed(m) == {m, music_stop(m)}

\* ClampMs without the upper limit
ClampMs_NoUpper(ms, duration) == Max(0, ms)

\* max(0, min(ms, self.audio_duration_ms))
ClampMs(ms, duration) == Max(0, Min(ms, duration))

\* Every pending run carries the mark "superseded": a later run has been
\* started since this one was.  The program keeps no such mark; it records
\* the order of starts.
Supersede(pending) ==
    [i \in 1..Len(pending) |-> [pending[i] EXCEPT !.superseded = TRUE]]

Thread(file_path, min_silence_len, superseded) ==
    [file_path |-> file_path, min_silence_len |-> min_silence_len,
     superseded |-> superseded]

\* the running threads, each marked superseded
SupersedeThreads(running) ==
    LET old == BagToSet(running)
        marked == { Thread(t.file_path, t.min_silence_len, TRUE) : t \in old }
    IN  [m \in marked |->
            (IF m \in old THEN running[m] ELSE 0)
            + (IF Thread(m.file_path, m.min_silence_len, FALSE) \in old
               THEN running[Thread(m.file_path, m.min_silence_len, FALSE)]
               ELSE 0)]

Pending == BagCardinality(threads) + Len(after_queue)

\* auto_split_on_param_change, run with the given source path after the
\* caller has left the status bar at shown
auto_split_on_param_change(source_file, shown) ==
    LET parsed == ParseTimeEntry(min_silence_entry)
    IN  IF source_file = NoFile
        THEN /\ status' = shown
             /\ UNCHANGED <<timestamp_tree, threads, after_queue>>
        ELSE IF ~parsed.ok
        THEN /\ status' = Status("error", "Invalid splitting parameter")
             /\ UNCHANGED <<timestamp_tree, threads, after_queue>>
        ELSE /\ Pending < MaxPending
             /\ timestamp_tree' = <<>>
             /\ threads' = SupersedeThreads(threads)
                              (+) SetToBag({Thread(source_file, parsed.ms,
                                                   FALSE)})
             /\ after_queue' = Supersede(after_queue)
             /\ status' = shown

\* Browse...: select_source_file with the dialog answering f, which runs
\* plot_waveform(f) and then auto_split_on_param_change()
SelectSourceFile(f) ==
    /\ source_file_path' = f
    /\ audio_duration_ms' = IF Decodes(f) THEN AudioLen(f) ELSE 0
    /\ split_points' = <<>>
    /\ current_audio_path' = f
    /\ auto_split_on_param_change(f,
          IF Decodes(f) THEN Status("success", "Selected file")
                        ELSE Status("error", "Error loading file"))
    /\ UNCHANGED <<min_silence_entry, zip_export, time_codec, is_paused, mixer>>

\* <FocusOut> or <Return> on the silence entry
AutoSplitOnParamChange ==
    /\ auto_split_on_param_change(source_file_path, status)
    /\ UNCHANGED <<source_file_path, current_audio_path, audio_duration_ms,
                   split_points, min_silence_entry,
                   zip_export, time_codec, is_paused, mixer>>

\* the user replaces the text of the silence entry
TypeEntry(text) ==
    /\ text # min_silence_entry
    /\ min_silence_entry' = text
    /\ UNCHANGED <<source_file_path, current_audio_path, audio_duration_ms,
                   split_points, timestamp_tree, threads, after_queue,
                   status,
                   zip_export, time_codec, is_paused, mixer>>

\* on_waveform_click inside the axes, at the position that maps to ms
\* (before clamping)
OnWaveformClick(ms) ==
    IF audio_duration_ms = 0
    THEN UNCHANGED vars
    ELSE /\ Len(split_points) < MaxPoints
         /\ split_points' =
                Append(split_points, ClampMs(ms, audio_duration_ms))
         /\ timestamp_tree' =
                Rows(derive_segments(split_points', audio_duration_ms))
         /\ UNCHANGED <<source_file_path, current_audio_path,
                        audio_duration_ms, min_silence_entry, threads,
                        after_queue, status,
                        zip_export, time_codec, is_paused, mixer>>

\* Split: add_manual_split_from_entry
AddManualSplitFromEntry ==
    LET parsed == ParseTimeEntry(min_silence_entry)
        ms == ClampMs(parsed.ms, audio_duration_ms)
    IN  /\ IF audio_duration_ms = 0
           THEN /\ status' = Status("error", "No audio loaded")
                /\ UNCHANGED <<split_points, timestamp_tree>>
           ELSE IF ~parsed.ok
           THEN /\ status' = Status("error", "Invalid time format")
                /\ UNCHANGED <<split_points, timestamp_tree>>
           ELSE /\ IF ms \notin Range(split_points)
                   THEN /\ Len(split_points) < MaxPoints
                        /\ split_points' = Append(split_points, ms)
                   ELSE UNCHANGED split_points
                /\ timestamp_tree' =
                       Rows(derive_segments(split_points', audio_duration_ms))
                /\ status' = Status("success", "Added split point")
        /\ UNCHANGED <<source_file_path, current_audio_path,
                       audio_duration_ms, min_silence_entry, threads,
                       after_queue,
                       zip_export, time_codec, is_paused, mixer>>

\* Split (Manual): add_manual_splits
AddManualSplits ==
    /\ timestamp_tree' = Rows(derive_segments(split_points, audio_duration_ms))
    /\ status' = Status("success", "Added manual split points")
    /\ UNCHANGED <<source_file_path, current_audio_path, audio_duration_ms,
                   split_points, min_silence_entry, threads, after_queue,
                   zip_export, time_codec, is_paused, mixer>>

\* RefreshSplitLines without self.split_points = []
RefreshSplitLines_KeepPoints ==
    /\ timestamp_tree' = ResetRows(audio_duration_ms)
    /\ status' = Status("info", "Reset all split points and playback")
    /\ mixer' = music_stop(mixer)
    /\ is_paused' = FALSE
    /\ UNCHANGED <<source_file_path, current_audio_path, audio_duration_ms,
                   split_points, min_silence_entry, threads, after_queue,
                   zip_export, time_codec>>

\* Refresh under the waveform: refresh_split_lines
RefreshSplitLines ==
    /\ mixer' = music_stop(mixer)
    /\ is_paused' = FALSE
    /\ split_points' = <<>>
    /\ timestamp_tree' = ResetRows(audio_duration_ms)
    /\ status' = Status("info", "Reset all split points and playback")
    /\ UNCHANGED <<source_file_path, current_audio_path, audio_duration_ms,
                   min_silence_entry, threads, after_queue,
                   zip_export, time_codec>>

\* Refresh next to the entry: refresh_split_parameters
RefreshSplitParameters ==
    /\ min_silence_entry' = DefaultEntry
    /\ split_points' = <<>>
    /\ timestamp_tree' = ResetRows(audio_duration_ms)
    /\ status' = Status("info", "Reset all parameters")
    /\ UNCHANGED <<source_file_path, current_audio_path, audio_duration_ms,
                   threads, after_queue,
                   zip_export, time_codec, is_paused, mixer>>

\* NothingFound shown as an error
NothingFound_AsError == Status("error", "No silence found")

\* run_auto_split_task: the notice when the engine returns no chunk
NothingFound == Status("warning", "No silence found")

\* the running thread t executes run_auto_split_task to its end, the
\* engine ending with outcome when the file decodes
RunAutoSplitTaskWith(t, outcome) ==
    /\ BagIn(t, threads)
    /\ threads' = threads (-) SetToBag({t})
    /\ IF ~Decodes(t.file_path) \/ outcome.raised
       THEN /\ status' = Status("error", "Auto split error")
            /\ UNCHANGED after_queue
       ELSE IF outcome.chunks = <<>>
       THEN /\ status' = NothingFound
            /\ UNCHANGED after_queue
       ELSE /\ status' = Status("info", "Splitting on silence")
            /\ after_queue' =
                   Append(after_queue,
                          [timestamps |-> Timestamps(outcome.chunks),
                           superseded |-> t.superseded])
    /\ UNCHANGED <<source_file_path, current_audio_path,
                   audio_duration_ms, split_points, timestamp_tree,
                   min_silence_entry,
                   zip_export, time_codec, is_paused, mixer>>

RunAutoSplitTask(t) ==
    \E outcome \in EngineOutcomes(t.file_path, t.min_silence_len) :
        RunAutoSplitTaskWith(t, outcome)

\* UpdateTree emptying the split points
UpdateTree_ClearsPoints ==
    /\ after_queue # <<>>
    /\ timestamp_tree' = timestamp_tree \o Rows(Head(after_queue).timestamps)
    /\ status' = Status("success", "Auto split complete")
    /\ after_queue' = Tail(after_queue)
    /\ split_points' = <<>>
    /\ UNCHANGED <<source_file_path, current_audio_path, audio_duration_ms,
                   min_silence_entry, threads, zip_export, time_codec,
                   is_paused, mixer>>

\* the event loop runs the oldest queued update_tree
UpdateTree ==
    /\ after_queue # <<>>
    /\ timestamp_tree' = timestamp_tree \o Rows(Head(after_queue).timestamps)
    /\ status' = Status("success", "Auto split complete")
    /\ after_queue' = Tail(after_queue)
    /\ UNCHANGED <<source_file_path, current_audio_path, audio_duration_ms,
                   split_points, min_silence_entry, threads,
                   zip_export, time_codec, is_paused, mixer>>

\* positions a click on the waveform can map to, before clamping
ClickMs == {-50, 7000}

Next ==
    \/ \E f \in Files : SelectSourceFile(f)
    \/ AutoSplitOnParamChange
    \/ \E text \in EntryTexts : TypeEntry(text)
    \/ \E ms \in ClickMs : OnWaveformClick(ms)
    \/ AddManualSplitFromEntry
    \/ AddManualSplits
    \/ RefreshSplitLines
    \/ RefreshSplitParameters
    \/ \E t \in BagToSet(threads) : RunAutoSplitTask(t)
    \/ UpdateTree

Spec == Init /\ [][Next]_vars

----------------------------------------------------------------------------
(* Export: download_segments_zip.  zip_export tells what the latest call   *)
(* did: whether it asked for a destination, the message box it showed, the *)
(* slices it encoded into the staging directory, whether that directory is *)
(* still there, the archive at the destination (none, partial after a      *)
(* write that failed half way, complete), and whether it ended by an       *)
(* exception, which Tk reports on stderr.                                  *)

\* NothingToExport with "and" for "or"
NothingToExport_And(segments, path) == segments = <<>> /\ path = NoFile

\* if not segments or not self.current_audio_path
NothingToExport(segments, path) == segments = <<>> \/ path = NoFile

\* segment = audio[start_ms:end_ms] for one row of the tree, written to
\* track_NN.mp3; slicing cuts both offsets to the length of the audio
Slice(row, len) ==
    [track |-> row[1],
     start_ms |-> Min(mmss_to_ms(row[2]).ms, len),
     end_ms |-> Min(mmss_to_ms(row[3]).ms, len)]

\* what can go wrong after the dialog, the file being decodable: nothing,
\* segment.export raising at the segment numbered at, ZipFile failing to
\* open the destination, zipf.write failing after the destination exists
NoFault == [step |-> "none", at |-> 0]
ExportFaults(n) ==
    { NoFault, [step |-> "open", at |-> 0], [step |-> "write", at |-> 0] }
        \cup { [step |-> "encode", at |-> k] : k \in 1..n }

\* the segment at which the loop over the segments raises, 0 for none:
\* int() rejects one of its texts or its encoding fails
LoopRaisesAt(segments, fault) ==
    LET bad == { k \in 1..Len(segments) :
                    \/ ~mmss_to_ms(segments[k][2]).ok
                    \/ ~mmss_to_ms(segments[k][3]).ok
                    \/ (fault.step = "encode" /\ fault.at = k) }
    IN  IF bad = {} THEN 0 ELSE CHOOSE k \in bad : \A j \in bad : k <= j

\* ExportFrame with the rows of the tree deleted
ExportFrame_ClearsTree ==
    /\ timestamp_tree' = <<>>
    /\ UNCHANGED <<source_file_path, current_audio_path, audio_duration_ms,
                   split_points, min_silence_entry, threads, after_queue,
                   time_codec, is_paused, mixer>>

\* what download_segments_zip never assigns
ExportFrame ==
    UNCHANGED <<source_file_path, current_audio_path, audio_duration_ms,
                split_points, timestamp_tree, min_silence_entry, threads,
                after_queue, time_codec, is_paused, mixer>>

\* Download as ZIP, the save dialog answering with a path (chosen) or
\* cancelled, the rest of the call meeting fault
download_segments_zip(chosen, fault) ==
    LET segments == timestamp_tree
        len == AudioLen(current_audio_path)
        stop == LoopRaisesAt(segments, fault)
        slices(n) == [i \in 1..n |-> Slice(segments[i], len)]
        asked == [NoExport EXCEPT !.asked = TRUE]
        staged(n) == [asked EXCEPT !.temp_dir = TRUE, !.encoded = slices(n),
                                   !.raised = TRUE]
    IN  /\ IF NothingToExport(segments, current_audio_path)
           THEN /\ zip_export' = [NoExport EXCEPT !.shown = "error"]
                /\ UNCHANGED status
           ELSE IF ~chosen
           THEN /\ zip_export' = asked
                /\ UNCHANGED status
           ELSE IF ~Decodes(current_audio_path)
           THEN /\ zip_export' = [asked EXCEPT !.raised = TRUE]
                /\ UNCHANGED status
           ELSE IF stop # 0
           THEN /\ zip_export' = staged(stop - 1)
                /\ UNCHANGED status
           ELSE IF fault.step = "open"
           THEN /\ zip_export' = staged(Len(segments))
                /\ UNCHANGED status
           ELSE IF fault.step = "write"
           THEN /\ zip_export' =
                       [staged(Len(segments)) EXCEPT !.archive = "partial"]
                /\ UNCHANGED status
           ELSE /\ zip_export' =
                       [asked EXCEPT !.encoded = slices(Len(segments)),
                                     !.archive = "complete",
                                     !.shown = "info"]
                /\ status' = Status("success", "Exported segments to ZIP")
        /\ ExportFrame

DownloadSegmentsZip ==
    \E chosen \in BOOLEAN, fault \in ExportFaults(Len(timestamp_tree)) :
        download_segments_zip(chosen, fault)

\* the handlers of Next up to the first export, and the exports from there
ExportNext ==
    \/ /\ zip_export = NoExport
       /\ \E f \in Files : SelectSourceFile(f)
       /\ Pending' <= MaxExportPending
    \/ /\ zip_export = NoExport
       /\ AutoSplitOnParamChange
       /\ Pending' <= MaxExportPending
    \/ /\ zip_export = NoExport
       /\ \E text \in EntryTexts : TypeEntry(text)
    \/ /\ zip_export = NoExport
       /\ \E ms \in ClickMs : OnWaveformClick(ms)
    \/ /\ zip_export = NoExport
       /\ AddManualSplitFromEntry
    \/ /\ zip_export = NoExport
       /\ AddManualSplits
    \/ /\ zip_export = NoExport
       /\ RefreshSplitLines
    \/ /\ zip_export = NoExport
       /\ RefreshSplitParameters
    \/ /\ zip_export = NoExport
       /\ \E t \in BagToSet(threads) : RunAutoSplitTask(t)
    \/ /\ zip_export = NoExport
       /\ UpdateTree
    \/ DownloadSegmentsZip

ExportSpec == Init /\ [][ExportNext]_vars

----------------------------------------------------------------------------
(* The entry with further texts *)

\* "-1" and "0:0:0"
OtherEntryTexts == { <<Num(-1)>>, <<Num(0), Num(0), Num(0)>> }

EntryNext ==
    \/ Next
    \/ \E text \in OtherEntryTexts : TypeEntry(text)

EntrySpec == Init /\ [][EntryNext]_vars

----------------------------------------------------------------------------
(* Playback: play_audio, pause_audio, stop_audio *)

\* Play: resumes when is_paused, else loads the current audio path and
\* plays it; after stands for the music when load has raised
PlayAudio(after) ==
    IF current_audio_path = NoFile
    THEN UNCHANGED vars
    ELSE /\ IF is_paused
            THEN /\ mixer' = music_unpause(mixer)
                 /\ is_paused' = FALSE
                 /\ status' = Status("info", "Resumed playback")
            ELSE IF ~Decodes(current_audio_path)
            THEN /\ mixer' = after
                 /\ status' = Status("error", "Playback error")
                 /\ UNCHANGED is_paused
            ELSE /\ mixer' = music_load_play(mixer, current_audio_path)
                 /\ status' = Status("success", "Started playback")
                 /\ UNCHANGED is_paused
         /\ UNCHANGED <<source_file_path, current_audio_path,
                        audio_duration_ms, split_points, timestamp_tree,
                        min_silence_entry, threads, after_queue, zip_export,
                        time_codec>>

\* Pause, get_busy() answering busy
PauseAudio(busy) ==
    /\ IF busy
       THEN /\ mixer' = music_pause(mixer)
            /\ is_paused' = TRUE
            /\ status' = Status("warning", "Paused playback")
       ELSE IF is_paused
       THEN /\ mixer' = music_unpause(mixer)
            /\ is_paused' = FALSE
            /\ status' = Status("info", "Resumed playback")
       ELSE UNCHANGED <<mixer, is_paused, status>>
    /\ UNCHANGED <<source_file_path, current_audio_path, audio_duration_ms,
                   split_points, timestamp_tree, min_silence_entry, threads,
                   after_queue, zip_export, time_codec>>

\* Stop
StopAudio ==
    /\ mixer' = music_stop(mixer)
    /\ is_paused' = FALSE
    /\ status' = Status("info", "Stopped playback")
    /\ UNCHANGED <<source_file_path, current_audio_path, audio_duration_ms,
                   split_points, timestamp_tree, min_silence_entry, threads,
                   after_queue, zip_export, time_codec>>

\* the music reaches its end while playing
MusicEnds ==
    /\ mixer.state = "playing"
    /\ mixer' = music_stop(mixer)
    /\ UNCHANGED <<source_file_path, current_audio_path, audio_duration_ms,
                   split_points, timestamp_tree, min_silence_entry, threads,
                   after_queue, status, zip_export, time_codec, is_paused>>

PlaybackNext ==
    \/ Next
    \/ \E after \in music_load_failed(mixer) : PlayAudio(after)
    \/ \E busy \in music_get_busy(mixer) : PauseAudio(busy)
    \/ StopAudio
    \/ MusicEnds

PlaybackSpec == Init /\ [][PlaybackNext]_vars

----------------------------------------------------------------------------
(* The time conversions applied to times and texts *)

\* the times converted: whole seconds up to MaxSecs, and times in between
CodecMs == { s * 1000 + r : s \in 0..MaxSecs, r \in {0, 500, 999} }

\* the texts converted: "1:30", "5", "-5", "x", "1:x", "x:3", "0:1:2", "::"
CodecTexts ==
    { <<Num(1), Num(30)>>, <<Num(5)>>, <<Num(-5)>>, <<NaN>>,
      <<Num(1), NaN>>, <<NaN, Num(3)>>, <<Num(0), Num(1), Num(2)>>,
      <<NaN, NaN, NaN>> }

CodecInit ==
    /\ AppInit
    /\ time_codec \in
          { [NoCodec EXCEPT !.stage = "ms", !.ms = m] : m \in CodecMs }
          \cup { [NoCodec EXCEPT !.stage = "text", !.text = t] :
                    t \in CodecTexts }

app_vars == <<source_file_path, current_audio_path, audio_duration_ms,
              split_points, timestamp_tree, min_silence_entry, threads,
              after_queue, status, zip_export, is_paused, mixer>>

\* ms_to_mmss of the time
MsToMmss ==
    /\ time_codec.stage = "ms"
    /\ time_codec' = [time_codec EXCEPT !.stage = "mmss",
                                        !.text = ms_to_mmss(time_codec.ms)]
    /\ UNCHANGED app_vars

\* mmss_to_ms of the text, typed or made by ms_to_mmss
MmssToMs ==
    /\ time_codec.stage \in {"mmss", "text"}
    /\ time_codec' =
           [time_codec EXCEPT
               !.stage = IF @ = "mmss" THEN "back" ELSE "mmss_to_ms",
               !.result = mmss_to_ms(time_codec.text)]
    /\ UNCHANGED app_vars

\* the inline parser of the two entry handlers on the typed text
ParseEntry ==
    /\ time_codec.stage = "text"
    /\ time_codec' = [time_codec EXCEPT
                          !.stage = "entry",
                          !.result = ParseTimeEntry(time_codec.text)]
    /\ UNCHANGED app_vars

CodecNext ==
    \/ MsToMmss
    \/ MmssToMs
    \/ ParseEntry

CodecSpec == CodecInit /\ [][CodecNext]_vars

----------------------------------------------------------------------------
(* Properties *)

\* C1: a queued auto-split result is never put into the segment list once
\* a newer run has been started; only the most recently started run's
\* result is applied.
C1_StaleResultNeverApplied ==
    [][UpdateTree => ~Head(after_queue).superseded]_vars

\* C2: at most one auto-split worker thread is started and unfinished at
\* any time.
C2_AtMostOneWorker == BagCardinality(threads) <= 1

\* the rows read as a segment list are contiguous and cover the audio as
\* the tree shows it: from 00:00 to the duration, each end the next start
ContiguousRows(rows, duration) ==
    /\ rows[1][2] = ms_to_mmss(0)
    /\ rows[Len(rows)][3] = ms_to_mmss(duration)
    /\ \A i \in 1..(Len(rows) - 1) : rows[i][3] = rows[i+1][2]

\* C3: with audio loaded and the segment list not empty, the list is
\* contiguous and exhaustive, whichever operation produced it.
C3_SegmentListContiguous ==
    (audio_duration_ms > 0 /\ timestamp_tree # <<>>)
        => ContiguousRows(timestamp_tree, audio_duration_ms)

\* C4: with audio loaded, the segments derived from the stored split points
\* start at 0, end at the duration, and each ends where the next starts.
C4_DerivedSegmentsContiguous ==
    audio_duration_ms > 0 =>
        LET segs == derive_segments(split_points, audio_duration_ms)
        IN  /\ Len(segs) >= 1
            /\ segs[1][2] = 0
            /\ segs[Len(segs)][3] = audio_duration_ms
            /\ \A i \in 1..(Len(segs) - 1) : segs[i][3] = segs[i+1][2]

\* two points inside the audio are stored and the tree shows the three
\* segments derived from them
C4_Witness ==
    /\ audio_duration_ms = 10000
    /\ Range(split_points) = {2000, 7000}
    /\ timestamp_tree = Rows(<<<<1, 0, 2000>>, <<2, 2000, 7000>>,
                               <<3, 7000, 10000>>>>)

\* C5: every stored split point lies within [0, duration] of the loaded
\* audio; additions outside that range are clamped.
C5_PointsWithinDuration ==
    \A i \in 1..Len(split_points) :
        0 <= split_points[i] /\ split_points[i] <= audio_duration_ms

\* on the 1500 ms file the end, which only a position beyond the audio
\* clamps to, and the start have been stored
C5_Witness ==
    /\ audio_duration_ms = 1500
    /\ Range(split_points) = {0, 1500}

\* C6: the stored split points never hold the same offset twice.
C6_NoDuplicatePoints ==
    \A i, j \in 1..Len(split_points) :
        i # j => split_points[i] # split_points[j]

\* a step that adds, by a click or from the entry, a point already stored
AddsStoredPoint ==
    /\ audio_duration_ms # 0
    /\ split_points # <<>>
    /\ \/ \E ms \in ClickMs :
            /\ ClampMs(ms, audio_duration_ms) \in Range(split_points)
            /\ OnWaveformClick(ms)
       \/ /\ ParseTimeEntry(min_silence_entry).ok
          /\ ClampMs(ParseTimeEntry(min_silence_entry).ms, audio_duration_ms)
                \in Range(split_points)
          /\ AddManualSplitFromEntry

\* C7: adding a point a second time, by either add path, derives the same
\* segments as adding it once.
C7_AddIdempotent ==
    [][AddsStoredPoint =>
          /\ derive_segments(split_points', audio_duration_ms')
                = derive_segments(split_points, audio_duration_ms)
          /\ timestamp_tree'
                = Rows(derive_segments(split_points, audio_duration_ms))]_vars

\* the same point has been clicked twice and the tree shows the segments of
\* the single point
C7_Witness ==
    /\ audio_duration_ms = 10000
    /\ split_points = <<7000, 7000>>
    /\ timestamp_tree = Rows(<<<<1, 0, 7000>>, <<2, 7000, 10000>>>>)

\* C8: the split points are empty right after every file load and every
\* reset; while no audio is loaded they are empty and adding leaves them
\* unchanged.
C8_PointsClearedAndFrozen ==
    /\ [](audio_duration_ms = 0 => split_points = <<>>)
    /\ [][(split_points' # <<>>)
          => ~((\E f \in Files : SelectSourceFile(f))
               \/ RefreshSplitLines \/ RefreshSplitParameters)]_vars
    /\ [][(audio_duration_ms = 0
            /\ (AddManualSplitFromEntry
                \/ \E ms \in ClickMs : OnWaveformClick(ms)))
          => split_points' = split_points]_vars

\* the load of a file that does not decode has failed, with the rows of
\* the three segments of the file loaded before still in the tree
C8_Witness ==
    /\ source_file_path = "bad.mp3"
    /\ audio_duration_ms = 0
    /\ status.kind = "error"
    /\ Len(timestamp_tree) = 3
    /\ split_points = <<>>

\* C9: when an auto-split result of several chunks is delivered, the end
\* of every chunk but the last is a stored split point.
C9_ChunkEndsStored ==
    [][UpdateTree =>
          LET ts == Head(after_queue).timestamps
          IN  \A i \in 1..(Len(ts) - 1) :
                  ts[i][3] \in Range(split_points')]_vars

\* a step in which a running thread finds no chunk
FindsNothing ==
    \E t \in BagToSet(threads) :
        /\ threads' # threads
        /\ Decodes(t.file_path)
        /\ Returned(<<>>) \in EngineOutcomes(t.file_path, t.min_silence_len)
        /\ RunAutoSplitTaskWith(t, Returned(<<>>))

\* C10: a run that produces no chunk shows the "nothing found" notice as a
\* warning, not as an error, and neither starting the run nor its end
\* changes the stored split points.
C10_NothingFoundNotice ==
    /\ [][FindsNothing =>
             /\ status'.kind = "warning"
             /\ split_points' = split_points
             /\ after_queue' = after_queue]_vars
    /\ [][AutoSplitOnParamChange => split_points' = split_points]_vars

\* the notice is shown while split points are stored
C10_Witness ==
    /\ status.kind = "warning"
    /\ split_points # <<>>
    /\ threads = EmptyBag

----------------------------------------------------------------------------
(* Properties of the export, under ExportSpec *)

\* C11: an export started while the segment list is empty or no audio is
\* loaded ends with the error message and writes nothing: it asks for no
\* destination, encodes no segment, leaves no staging directory and
\* creates no archive.
C11_EmptyExportWritesNothing ==
    [][((timestamp_tree = <<>> \/ current_audio_path = NoFile)
            /\ DownloadSegmentsZip)
          => /\ zip_export'.shown = "error"
             /\ ~zip_export'.asked
             /\ zip_export'.encoded = <<>>
             /\ ~zip_export'.temp_dir
             /\ zip_export'.archive = "none"]_vars

\* an export with audio loaded and an empty segment list has shown the error
C11_Witness ==
    /\ zip_export.shown = "error"
    /\ audio_duration_ms > 0
    /\ current_audio_path # NoFile
    /\ timestamp_tree = <<>>

\* the slices of the segments, each cut at its own millisecond offsets
SlicesOf(segments) ==
    [i \in 1..Len(segments) |->
        [track |-> segments[i][1], start_ms |-> segments[i][2],
         end_ms |-> segments[i][3]]]

\* C12: an export that completes while the segment list shows the segments
\* derived from the split points encodes, for every segment, the slice
\* from the segment's start to its end in milliseconds; the slices then
\* cover the audio from 0 to its duration and none is empty.
C12_SlicesAreTheSegments ==
    [][(/\ timestamp_tree =
              Rows(derive_segments(split_points, audio_duration_ms))
        /\ zip_export'.archive = "complete"
        /\ DownloadSegmentsZip)
          => zip_export'.encoded =
                SlicesOf(derive_segments(split_points, audio_duration_ms))]_vars

\* C13: an export that ends by a failure, of the encoding of a segment or
\* of the writing of the archive, leaves no archive at the destination,
\* neither complete nor partial.
C13_ArchiveAllOrNothing ==
    zip_export.raised => zip_export.archive = "none"

\* C14: after every export, however it ended, the staging directory with
\* the files of the segments is gone.
C14_StagingDiscarded == ~zip_export.temp_dir

\* C15: an export, whether it completes, is cancelled at the save dialog
\* or fails, changes neither the split points, nor the path and the
\* duration of the loaded audio, nor the segment list.
C15_ExportLeavesCollections ==
    [][DownloadSegmentsZip =>
          UNCHANGED <<split_points, current_audio_path, audio_duration_ms,
                      timestamp_tree>>]_vars

\* an export has failed at the second of three segments, two split points
\* being stored
C15_Witness ==
    /\ zip_export.raised
    /\ Len(zip_export.encoded) = 1
    /\ Len(timestamp_tree) = 3
    /\ Len(split_points) = 2

----------------------------------------------------------------------------
(* Properties of the time conversions, under CodecSpec *)

\* C16: for a time of 0 ms or more, mmss_to_ms of ms_to_mmss of the time
\* is the time rounded down to the whole second.
C16_RoundTrip ==
    time_codec.stage = "back" =>
        time_codec.result =
            [ok |-> TRUE, ms |-> (time_codec.ms \div 1000) * 1000]

\* a time beyond one minute and off the whole second has gone there and back
C16_Witness ==
    /\ time_codec.stage = "back"
    /\ time_codec.ms > 60000
    /\ time_codec.ms % 1000 # 0
    /\ time_codec.result.ms = (time_codec.ms \div 1000) * 1000

\* a text that is neither two integers around one colon nor one integer
\* that is 0 or more
Malformed(parts) ==
    /\ ~(Len(parts) = 2 /\ parts[1].int /\ parts[2].int)
    /\ ~(Len(parts) = 1 /\ parts[1].int /\ parts[1].val >= 0)

\* C17: mmss_to_ms and the parser of the entry handlers reject every
\* malformed text: a text with two colons or more, with a part that is no
\* integer, or a negative integer without colon yields no time.
C17_MalformedRejected ==
    (time_codec.stage \in {"mmss_to_ms", "entry"}
        /\ Malformed(time_codec.text))
      => ~time_codec.result.ok

----------------------------------------------------------------------------
(* Properties of the entry handlers and of the file selection *)

\* C18: when the text of the entry is malformed, the handler that parses
\* it (the auto-split on a change of the parameter with a source file
\* chosen, the split from the entry with audio loaded) shows an error and
\* changes neither the split points, nor the segment list, nor the loaded
\* audio, nor the playback, and starts no worker thread.
C18_MalformedEntryLeavesState ==
    [][(/\ Malformed(min_silence_entry)
        /\ \/ (source_file_path # NoFile /\ AutoSplitOnParamChange)
           \/ (audio_duration_ms # 0 /\ AddManualSplitFromEntry))
          => /\ status'.kind = "error"
             /\ UNCHANGED <<split_points, timestamp_tree,
                            current_audio_path, audio_duration_ms,
                            is_paused, mixer, threads>>]_vars

\* C19: a file that fails to decode is not published: it never is the
\* current audio path, no auto-split thread runs on it, and while it is
\* the selected file the duration is 0 and no split point is stored.
C19_FailedLoadPublishesNothing ==
    /\ current_audio_path # NoFile => Decodes(current_audio_path)
    /\ \A t \in BagToSet(threads) : Decodes(t.file_path)
    /\ ~Decodes(source_file_path) =>
           (audio_duration_ms = 0 /\ split_points = <<>>)

\* the segments as the set of <<ordinal, start, end>> over the boundaries
\* {0, duration} and the points within [0, duration]: one for each
\* boundary that has a greater one, ending at the least greater one and
\* numbered by its place among the boundaries
ReferenceSegments(points, duration) ==
    LET B == { p \in {0, duration} \cup Range(points) :
                  0 <= p /\ p <= duration }
        after(p) == { q \in B : p < q }
        next(p) == CHOOSE q \in after(p) : \A r \in after(p) : q <= r
    IN  { <<Cardinality({ q \in B : q <= p }), p, next(p)>> :
            p \in { b \in B : after(b) # {} } }

\* C20: the segments derived from the stored points are the reference
\* segments, in order: the i-th has ordinal i and runs from the i-th to
\* the (i+1)-th of the sorted distinct boundaries {0, duration} and points
\* within [0, duration], with start < end; with no audio loaded there is
\* none.
C20_DerivedSegmentsAreReference ==
    LET segs == derive_segments(split_points, audio_duration_ms)
        ref == ReferenceSegments(split_points, audio_duration_ms)
    IN  /\ Range(segs) = ref
        /\ Len(segs) = Cardinality(ref)
        /\ \A i \in 1..Len(segs) :
               segs[i][1] = i /\ segs[i][2] < segs[i][3]
        /\ audio_duration_ms = 0 => segs = <<>>

\* points 7000 and 2000 stored on the 10000 ms audio give three segments
C20_Witness ==
    /\ audio_duration_ms = 10000
    /\ split_points = <<7000, 2000>>
    /\ derive_segments(split_points, audio_duration_ms) =
           <<<<1, 0, 2000>>, <<2, 2000, 7000>>, <<3, 7000, 10000>>>>

----------------------------------------------------------------------------
(* Properties of the auto-split results and of the segment list *)

\* the chunks of the 10000 ms audio, silent during [4000, 6000], for a
\* minimum silence of 1500 ms
ScenarioAChunks == split_on_silence(Runs("a.mp3"), 1500, KeepSilence)

\* C21: a run on the 10000 ms audio whose chunks are those of a minimum
\* silence of 1500 ms, [0, 4200] and [5800, 10000], reports exactly the
\* two timestamps (1, 0, 4200) and (2, 5800, 10000).
C21_ScenarioATimestamps ==
    [][\A t \in BagToSet(threads) :
          (/\ threads' # threads
           /\ t.file_path = "a.mp3"
           /\ t.min_silence_len >= 1
           /\ split_on_silence(Runs(t.file_path), t.min_silence_len,
                               KeepSilence) = ScenarioAChunks
           /\ RunAutoSplitTask(t))
             => /\ ScenarioAChunks = <<<<0, 4200>>, <<5800, 10000>>>>
                /\ after_queue' # <<>>
                /\ after_queue'[Len(after_queue')].timestamps =
                       <<<<1, 0, 4200>>, <<2, 5800, 10000>>>>]_vars

\* C22: an export that completes has encoded one file for each segment
\* of the list, and no two of the files have the same track number, that
\* is the same name track_NN.
C22_OneFilePerSegment ==
    [][(zip_export'.archive = "complete" /\ DownloadSegmentsZip)
          => /\ Len(zip_export'.encoded) = Len(timestamp_tree)
             /\ \A i, j \in 1..Len(zip_export'.encoded) :
                    i # j => zip_export'.encoded[i].track
                               # zip_export'.encoded[j].track]_vars

\* the sum of the lengths of the first k chunks
RECURSIVE PrefixLen(_, _)
PrefixLen(chunks, k) ==
    IF k = 0 THEN 0 ELSE PrefixLen(chunks, k - 1) + ChunkLen(chunks[k])

\* C23: the timestamps a run queues for the chunks c_1..c_n of the engine
\* are the running sums of the chunk lengths: segment i is (i, sum of the
\* lengths before i, sum of the lengths up to i).
C23_TimestampsAreRunningSums ==
    [][\A t \in BagToSet(threads) :
          \A outcome \in EngineOutcomes(t.file_path, t.min_silence_len) :
             (/\ after_queue' # after_queue
              /\ RunAutoSplitTaskWith(t, outcome))
                => LET ts == after_queue'[Len(after_queue')].timestamps
                   IN  /\ Len(ts) = Len(outcome.chunks)
                       /\ \A i \in 1..Len(ts) :
                              ts[i] = <<i, PrefixLen(outcome.chunks, i - 1),
                                        PrefixLen(outcome.chunks, i)>>]_vars

\* a run has queued the two chunks of 4200 ms each
C23_Witness ==
    /\ after_queue # <<>>
    /\ after_queue[Len(after_queue)].timestamps =
           <<<<1, 0, 4200>>, <<2, 4200, 8400>>>>

\* the points a click or the entry can store on audio of the duration
StorablePoints(duration) ==
    { ClampMs(ms, duration) :
        ms \in ClickMs \cup { ParseTimeEntry(text).ms : text \in EntryTexts } }

\* the lists derive_segments can give on the audio of some file
ManualOutputs ==
    UNION { { Rows(derive_segments(Sorted(S), AudioLen(f))) :
                S \in SUBSET StorablePoints(AudioLen(f)) } :
            f \in { g \in Files : Decodes(g) } }

\* the lists one auto-split run can give
AutoOutputs ==
    UNION { { Rows(Timestamps(outcome.chunks)) :
                outcome \in EngineOutcomes(f, ParseTimeEntry(text).ms) } :
            f \in { g \in Files : Decodes(g) }, text \in EntryTexts }

\* C24: the segment list is always empty, or the output of one auto-split
\* run, or the segments derived from a collection of split points, and
\* never rows of one producer appended to rows of another.
C24_SegmentListOneProducer ==
    timestamp_tree \in {<<>>} \cup AutoOutputs \cup ManualOutputs

\* C25: neither the start of an auto-split run on a change of the
\* parameter, nor the end of a run, nor the delivery of its result changes
\* the split points; a stored point is removed only by a file selection or
\* one of the two resets.
C25_AutoSplitKeepsPoints ==
    /\ [][(\/ AutoSplitOnParamChange
           \/ (threads' # threads
                 /\ \E t \in BagToSet(threads) : RunAutoSplitTask(t))
           \/ UpdateTree)
             => split_points' = split_points]_vars
    /\ [][~(Range(split_points) \subseteq Range(split_points'))
             => \/ \E f \in Files : SelectSourceFile(f)
                \/ RefreshSplitLines
                \/ RefreshSplitParameters]_vars

\* a result has been delivered into the emptied list while a point is stored
C25_Witness ==
    /\ split_points = <<7000>>
    /\ timestamp_tree = Rows(<<<<1, 0, 4200>>, <<2, 4200, 8400>>>>)
    /\ status.kind = "success"

\* C26: the track numbers of the segment list are 1, 2, ..., n from top
\* to bottom.
C26_TrackOrdinals ==
    \A i \in 1..Len(timestamp_tree) : timestamp_tree[i][1] = i

----------------------------------------------------------------------------
(* Properties of the playback, under PlaybackSpec *)

\* C27: Play, pressed while a decodable file is the current audio path,
\* leaves the music playing that file, also when the file was selected
\* while the music of another file was paused; Stop leaves the music
\* stopped and is_paused false.
C27_PlayFollowsLoadedFile ==
    /\ [][\A after \in music_load_failed(mixer) :
             (/\ current_audio_path # NoFile
              /\ Decodes(current_audio_path)
              /\ PlayAudio(after))
                => mixer' = [state |-> "playing",
                             file |-> current_audio_path]]_vars
    /\ [][StopAudio => (mixer'.state = "stopped" /\ ~is_paused')]_vars

====
